---- MODULE Spec2Model ----
(***************************************************************************)
(* Model of the single-archive Common Crawl pipeline of news-please:       *)
(*   newsplease/crawler/commoncrawl_extractor.py  (CommonCrawlExtractor)   *)
(*   newsplease/examples/commoncrawl.py           (the dispatcher callback *)
(*                                                  and the worker task)    *)
(* One run is one call of extract_from_commoncrawl in a fresh process; the *)
(* disk (download cache, output file, marker file, log of fully extracted  *)
(* WARCs) survives from one run to the next.                               *)
(***************************************************************************)
EXTENDS Integers, Sequences, FiniteSets, Bags, TLC

\* ------------------------------------------------------------------ bounds
\* records in the archive
MaxRecords == 2
\* runs of the pipeline against the same archive
MaxRuns == 2
\* processes of multiprocessing.Pool() (the machine's CPU count)
NumWorkers == 2
\* chunk size of imap_unordered, scaled down from the 25 of commoncrawl.py:145
ChunkSize == 1

\* ------------------------------------------------------------- input values
Hosts == {"example.com", "other.org"}
NoDate == -1
\* publish dates, as day numbers
Dates == {0, 1}
\* settings of start_date (None, or day 1) and of end_date (None, or day 0)
StartDates == {NoDate, 1}
EndDates == {NoDate, 0}

Articles == [source_domain : Hosts, publish_date : Dates \cup {NoDate}]

\* what a response record carries: a document NewsPlease.from_warc chokes on,
\* one it finds no article in, or one it extracts an article from
Docs ==
  {[kind |-> "malformed"], [kind |-> "noarticle"]}
    \cup {[kind |-> "article", article |-> a] : a \in Articles}

WarcRecords ==
  {[rec_type |-> "request"]} \cup {[rec_type |-> "response", doc |-> d] : d \in Docs}

SeqsUpTo(S, n) == UNION {[1..k -> S] : k \in 0..n}

Archives == SeqsUpTo(WarcRecords, MaxRecords)

\* the filter criteria, the error policy and the delete flag
\* extract_from_commoncrawl is given
Options ==
  [valid_hosts : {{}, {"example.com"}},
   continue_after_error : BOOLEAN,
   start_date : StartDates,
   end_date : EndDates,
   strict_date : BOOLEAN,
   delete_warc_after_extraction : BOOLEAN]

\* the settings of the example script
ExampleOptions ==
  [valid_hosts |-> {},
   continue_after_error |-> TRUE,
   start_date |-> NoDate,
   end_date |-> NoDate,
   strict_date |-> TRUE,
   delete_warc_after_extraction |-> TRUE]

\* ------------------------------------------------------------------- state
VARIABLES
  archive,          \* the records of the remote archive file (immutable)
  options,          \* __filter_valid_hosts, __filter_start_date, __filter_end_date,
                    \* __filter_strict_date, __delete_warc_after_extraction
  reuse,            \* __reuse_previously_downloaded_files
  continue_after_error, \* __continue_after_error
  run,              \* number of runs started
  pc,               \* position of the running process
  file,             \* the file at local_filepath in the download directory
  local_path_name,  \* what __download returned to __run
  net_log,          \* the urlretrieve calls issued so far, by run number
  checkpoint_log,   \* lines of the file of fully extracted WARC URLs
  warc_records,     \* the materialised records handed to the callback
  stream_open,      \* whether the stream of the archive file is open
  raw_streams,      \* indices of the records that still hold their raw_stream
  callbacks,        \* calls of __callback_on_article_extracted in this run
  tasks,            \* chunks the pool has not yet given to a worker
  workers,          \* per worker: records left of its chunk, results so far
  results,          \* items the pool has delivered and the main loop not yet seen
  consumed,         \* items the main loop has taken from json_articles
  outfile,          \* the gzip output file: lines and whether it is open
  done_marker,      \* whether outfile + '.done' exists
  error,            \* the exception that ended the run, if any
  exit_status       \* exit status of the process of this run, -1 while it runs

vars ==
  <<archive, options, reuse, continue_after_error, run, pc, file, local_path_name,
    net_log, checkpoint_log, warc_records, stream_open, raw_streams, callbacks,
    tasks, workers, results, consumed, outfile, done_marker, error, exit_status>>

Workers == 1..NumWorkers

\* the configured number of extraction processes of the example script
my_number_of_extraction_processes == 1

warc_download_url == "crawl-data/CC-NEWS/a.warc.gz"

\* urllib.parse.quote_plus on the one URL of the model: '/' becomes %2F
quote_plus(url) ==
  IF url = "crawl-data/CC-NEWS/a.warc.gz" THEN "crawl-data%2FCC-NEWS%2Fa.warc.gz" ELSE url

\* os.path.join(self.__local_download_dir_warc, local_filename)
local_filepath(url) == <<"./cc_download_warc/", quote_plus(url)>>

NoPath == <<>>

NoFile == [exists |-> FALSE, gen |-> 0, nrec |-> 0, complete |-> FALSE]

isfile(f) == f.exists

NoError == "none"

IdleWorker == [todo |-> <<>>, out |-> <<>>]

ClosedEmpty == [exists |-> FALSE, open |-> FALSE, lines |-> <<>>]

\* ------------------------------------------------------------ pure helpers
None == [tag |-> "None"]

Raised == [tag |-> "raised"]

\* NewsPlease.from_warc: the external extraction capability
from_warc(record) ==
  IF record.doc.kind = "malformed" THEN Raised
  ELSE IF record.doc.kind = "noarticle" THEN None
  ELSE record.doc.article

\* str() of a datetime, as json.dumps(default=str) applies it
date_str(d) == [iso |-> d]

\* json.dumps(article.__dict__, default=str, separators=(',', ':'))
json_dumps(article) ==
  [tag |-> "json",
   source_domain |-> article.source_domain,
   publish_date |-> IF article.publish_date = NoDate THEN [null |-> TRUE]
                    ELSE date_str(article.publish_date)]

\* a worker that lets the extraction exception escape
process_warc_record_unguarded(record) ==
  IF record.rec_type = "response"
  THEN IF from_warc(record) = Raised THEN Raised
       ELSE IF from_warc(record) # None THEN json_dumps(from_warc(record))
       ELSE None
  ELSE None

\* the worker task: the JSON line of the record's article, or None
process_warc_record(record) ==
  IF record.rec_type = "response"
  THEN IF from_warc(record) = Raised THEN None
       ELSE IF from_warc(record) # None THEN json_dumps(from_warc(record))
       ELSE None
  ELSE None

\* a main loop that prints every item
is_written_always(item) == TRUE

\* the test of the main loop before print(article, file=outfile)
is_written(item) == item # None

\* a write that leaves out the line end, so the item joins the line before it
print_line_joined(lines, item) ==
  IF lines = <<>> THEN <<item>>
  ELSE [lines EXCEPT ![Len(lines)] = [tag |-> "joined", first |-> @, second |-> item]]

\* print(article, file=outfile): the item becomes one more line of the file
print_line(lines, item) == Append(lines, item)

\* an output file opened without the with block: nothing closes it
gzip_exit_leaked(f) == f

\* leaving the block 'with gzip.open(...) as outfile': the file is flushed and
\* closed, on the normal path and on an exception alike
gzip_exit(f) == [f EXCEPT !.open = FALSE]

\* a second pass that forgets the del
delete_raw_stream_kept(held) == held

\* list(map(delete_raw_stream, warc_records)): no record keeps its raw_stream
delete_raw_stream(held) == {}

\* a __run that ends without sys.exit() and so returns to its caller
run_returns == "returned"

\* sys.exit() at the end of __run: the process ends, the caller is not resumed
sys_exit == "exited"

\* a branch test that forgets the configuration flag's sense
use_local_file_never(f, r) == isfile(f) /\ ~r

\* a branch test that never takes the cached file
use_local_file_off(f, r) == FALSE

\* a branch test that reuses only a completely downloaded file
use_local_file_checked(f, r) == isfile(f) /\ r /\ f.complete

\* the test of __download for returning the cached file
use_local_file(f, r) == isfile(f) /\ r

\* a cleanup that leaves the stale file in place
os_remove_skipped(f) == f

\* os.remove(local_filepath) inside try/except OSError
os_remove(f) == NoFile

\* urllib.request.urlretrieve(url, local_filepath): the connection fails before
\* the file is opened, or the transfer stops after k records, or it completes
urlretrieve(f, gen, outcome, k) ==
  CASE outcome = "ok" -> [exists |-> TRUE, gen |-> gen, nrec |-> Len(archive), complete |-> TRUE]
    [] outcome = "partial" -> [exists |-> TRUE, gen |-> gen, nrec |-> k, complete |-> FALSE]
    [] OTHER -> f

\* a chunking that stops after the first chunk
get_tasks_first_chunk(records, size) ==
  IF Len(records) = 0 THEN <<>>
  ELSE IF Len(records) <= size THEN <<records>>
  ELSE <<SubSeq(records, 1, size)>>

\* cutting the iterable into chunks, as Pool._get_tasks does
RECURSIVE get_tasks(_, _)
get_tasks(records, size) ==
  IF Len(records) = 0 THEN <<>>
  ELSE IF Len(records) <= size THEN <<records>>
  ELSE <<SubSeq(records, 1, size)>> \o get_tasks(SubSeq(records, size + 1, Len(records)), size)

\* __register_fully_extracted_warc_file: append the URL to the log file
register_fully_extracted_warc_file(log, warc_url) == Append(log, warc_url)

\* ---------------------------------------------------------------- actions
InitCommon ==
  /\ archive \in Archives
  /\ reuse = TRUE
  /\ continue_after_error = FALSE
  /\ run = 0
  /\ pc = "idle"
  /\ file = NoFile
  /\ local_path_name = NoPath
  /\ net_log = <<>>
  /\ checkpoint_log = <<>>
  /\ warc_records = <<>>
  /\ stream_open = FALSE
  /\ raw_streams = {}
  /\ callbacks = 0
  /\ tasks = <<>>
  /\ workers = [w \in Workers |-> IdleWorker]
  /\ results = <<>>
  /\ consumed = 0
  /\ outfile = ClosedEmpty
  /\ done_marker = FALSE
  /\ error = NoError
  /\ exit_status = -1

Init == InitCommon /\ options = ExampleOptions

\* the records that differ in how a run proceeds: the control flow depends on
\* a record's type and on whether its extraction raises, yields nothing or
\* yields an article, not on the article's fields
FlowRecords ==
  {r \in WarcRecords :
     (r.rec_type = "response" /\ r.doc.kind = "article") =>
       r.doc.article = [source_domain |-> "example.com", publish_date |-> 0]}

InitFlow == Init /\ archive \in SeqsUpTo(FlowRecords, MaxRecords)

InitOptions == InitCommon /\ options \in Options

\* extract_from_commoncrawl up to the call of __download, in a new process
StartRun ==
  /\ pc \in {"idle", "exited", "aborted"}
  /\ run < MaxRuns
  /\ run' = run + 1
  /\ \E r \in BOOLEAN : reuse' = r
  /\ continue_after_error' = options.continue_after_error
  /\ pc' = "download"
  /\ local_path_name' = NoPath
  /\ warc_records' = <<>>
  /\ stream_open' = FALSE
  /\ raw_streams' = {}
  /\ callbacks' = 0
  /\ consumed' = 0
  /\ error' = NoError
  /\ exit_status' = -1
  /\ UNCHANGED <<archive, options, file, net_log, checkpoint_log, tasks, workers,
                 results, outfile, done_marker>>

\* __download, the branch that returns the cached file
DownloadReuse ==
  /\ pc = "download"
  /\ use_local_file(file, reuse)
  /\ local_path_name' = local_filepath(warc_download_url)
  /\ pc' = "read"
  /\ UNCHANGED <<archive, options, stream_open, raw_streams, callbacks, reuse, continue_after_error, run, file, net_log,
                 checkpoint_log, warc_records, tasks, workers, results, consumed,
                 outfile, done_marker, error, exit_status>>

\* __download, the else branch up to the download: the cleanup
DownloadCleanup ==
  /\ pc = "download"
  /\ ~use_local_file(file, reuse)
  /\ file' = os_remove(file)
  /\ pc' = "retrieve"
  /\ UNCHANGED <<archive, options, stream_open, raw_streams, callbacks, reuse, continue_after_error, run, local_path_name,
                 net_log, checkpoint_log, warc_records, tasks, workers, results,
                 consumed, outfile, done_marker, error, exit_status>>

\* __download, the else branch: urlretrieve and the return; an exception of
\* urlretrieve leaves __download, __run and extract_from_commoncrawl uncaught
DownloadRetrieve ==
  /\ pc = "retrieve"
  /\ net_log' = Append(net_log, run)
  /\ \E outcome \in {"ok", "partial", "refused"}, k \in 0..MaxRecords :
       /\ outcome = "partial" => k < Len(archive)
       /\ outcome # "partial" => k = 0
       /\ file' = urlretrieve(file, run, outcome, k)
       /\ IF outcome = "ok"
          THEN /\ local_path_name' = local_filepath(warc_download_url)
               /\ pc' = "read"
               /\ UNCHANGED <<error, exit_status>>
          ELSE /\ pc' = "aborted"
               /\ error' = "DownloadError"
               /\ exit_status' = 1
               /\ UNCHANGED local_path_name
  /\ UNCHANGED <<archive, options, stream_open, raw_streams, callbacks, reuse, continue_after_error, run, checkpoint_log,
                 warc_records, tasks, workers, results, consumed, outfile,
                 done_marker>>

\* __process_warc_gz_file, the file is opened and every record of it is read
\* into memory; a truncated file ends the iteration early or raises, and the
\* exception leaves the with block, which closes the stream
ReadRecords ==
  /\ pc = "read"
  /\ \E raises \in BOOLEAN :
       /\ raises => ~file.complete
       /\ IF raises
          THEN /\ pc' = "aborted"
               /\ error' = "ArchiveParseError"
               /\ exit_status' = 1
               /\ UNCHANGED <<warc_records, stream_open, raw_streams>>
          ELSE /\ warc_records' = SubSeq(archive, 1, file.nrec)
               /\ stream_open' = TRUE
               /\ raw_streams' = 1..file.nrec
               /\ pc' = "close"
               /\ UNCHANGED <<error, exit_status>>
  /\ UNCHANGED <<archive, options, callbacks, reuse, continue_after_error, run, file,
                 local_path_name, net_log, checkpoint_log, tasks, workers, results,
                 consumed, outfile, done_marker>>

\* __process_warc_gz_file, the end of the with block: the stream is closed
CloseStream ==
  /\ pc = "close"
  /\ stream_open' = FALSE
  /\ pc' = "strip"
  /\ UNCHANGED <<archive, options, raw_streams, callbacks, reuse, continue_after_error,
                 run, file, local_path_name, net_log, checkpoint_log, warc_records,
                 tasks, workers, results, consumed, outfile, done_marker, error,
                 exit_status>>

\* __process_warc_gz_file, list(map(delete_raw_stream, warc_records))
DeleteRawStreams ==
  /\ pc = "strip"
  /\ raw_streams' = delete_raw_stream(raw_streams)
  /\ pc' = "dispatch"
  /\ UNCHANGED <<archive, options, stream_open, callbacks, reuse, continue_after_error,
                 run, file, local_path_name, net_log, checkpoint_log, warc_records,
                 tasks, workers, results, consumed, outfile, done_marker, error,
                 exit_status>>

\* on_valid_article_extracted: the pool is created, the records are queued in
\* chunks and the output file is opened for writing, which truncates it
Dispatch ==
  /\ pc = "dispatch"
  /\ callbacks' = callbacks + 1
  /\ tasks' = get_tasks(warc_records, ChunkSize)
  /\ workers' = [w \in Workers |-> IdleWorker]
  /\ results' = <<>>
  /\ consumed' = 0
  /\ outfile' = [exists |-> TRUE, open |-> TRUE, lines |-> <<>>]
  /\ pc' = "extract"
  /\ UNCHANGED <<archive, options, stream_open, raw_streams, reuse, continue_after_error, run, file,
                 local_path_name, net_log, checkpoint_log, warc_records, done_marker,
                 error, exit_status>>

\* a pool worker takes the next chunk from the task queue
WorkerTake(w) ==
  /\ pc = "extract"
  /\ workers[w].todo = <<>>
  /\ tasks # <<>>
  /\ workers' = [workers EXCEPT ![w] = [todo |-> Head(tasks), out |-> <<>>]]
  /\ tasks' = Tail(tasks)
  /\ UNCHANGED <<archive, options, stream_open, raw_streams, callbacks, reuse, continue_after_error, run, pc, file,
                 local_path_name, net_log, checkpoint_log, warc_records, results,
                 consumed, outfile, done_marker, error, exit_status>>

\* a pool worker runs process_warc_record on the next record of its chunk and,
\* at the end of the chunk, puts the chunk's results on the result queue
WorkerProcess(w) ==
  /\ pc = "extract"
  /\ workers[w].todo # <<>>
  /\ LET item == process_warc_record(Head(workers[w].todo))
         out == Append(workers[w].out, item)
         rest == Tail(workers[w].todo)
     IN IF rest = <<>>
        THEN /\ results' = results \o out
             /\ workers' = [workers EXCEPT ![w] = IdleWorker]
        ELSE /\ workers' = [workers EXCEPT ![w] = [todo |-> rest, out |-> out]]
             /\ UNCHANGED results
  /\ UNCHANGED <<archive, options, stream_open, raw_streams, callbacks, reuse, continue_after_error, run, pc, file,
                 local_path_name, net_log, checkpoint_log, warc_records, tasks,
                 consumed, outfile, done_marker, error, exit_status>>

\* one iteration of the loop over json_articles; an exception a worker let
\* escape is raised again here and unwinds both with blocks
MainWrite ==
  /\ pc = "extract"
  /\ results # <<>>
  /\ LET item == Head(results)
     IN IF item = Raised
        THEN /\ outfile' = gzip_exit(outfile)
             /\ tasks' = <<>>
             /\ workers' = [w \in Workers |-> IdleWorker]
             /\ results' = <<>>
             /\ pc' = "aborted"
             /\ error' = "ExtractionFailure"
             /\ exit_status' = 1
             /\ UNCHANGED consumed
        ELSE /\ outfile' = IF is_written(item)
                            THEN [outfile EXCEPT !.lines = print_line(@, item)]
                            ELSE outfile
             /\ results' = Tail(results)
             /\ consumed' = consumed + 1
             /\ UNCHANGED <<tasks, workers, pc, error, exit_status>>
  /\ UNCHANGED <<archive, options, stream_open, raw_streams, callbacks, reuse, continue_after_error, run, file,
                 local_path_name, net_log, checkpoint_log, warc_records, done_marker>>

\* print(article, file=outfile) fails (disk full): the exception unwinds both
\* with blocks, closing the output file and terminating the pool
WriteFails ==
  /\ pc = "extract"
  /\ results # <<>>
  /\ is_written(Head(results))
  /\ outfile' = gzip_exit(outfile)
  /\ tasks' = <<>>
  /\ workers' = [w \in Workers |-> IdleWorker]
  /\ results' = <<>>
  /\ pc' = "aborted"
  /\ error' = "WriteError"
  /\ exit_status' = 1
  /\ UNCHANGED <<archive, options, stream_open, raw_streams, callbacks, reuse, continue_after_error, run, file,
                 local_path_name, net_log, checkpoint_log, warc_records, consumed,
                 done_marker>>

\* json_articles is exhausted: the output file is closed and the pool ended
CloseSink ==
  /\ pc = "extract"
  /\ consumed = Len(warc_records)
  /\ outfile' = gzip_exit(outfile)
  /\ tasks' = <<>>
  /\ workers' = [w \in Workers |-> IdleWorker]
  /\ results' = <<>>
  /\ pc' = "marker"
  /\ UNCHANGED <<archive, options, stream_open, raw_streams, callbacks, reuse, continue_after_error, run, file,
                 local_path_name, net_log, checkpoint_log, warc_records, consumed,
                 done_marker, error, exit_status>>

\* the '.done' file is written and the callback returns
WriteMarker ==
  /\ pc = "marker"
  /\ done_marker' = TRUE
  /\ pc' = "exit"
  /\ UNCHANGED <<archive, options, stream_open, raw_streams, callbacks, reuse, continue_after_error, run, file,
                 local_path_name, net_log, checkpoint_log, warc_records, tasks,
                 workers, results, consumed, outfile, error, exit_status>>

\* sys.exit() at the end of __run
SysExit ==
  /\ pc = "exit"
  /\ pc' = sys_exit
  /\ exit_status' = 0
  /\ UNCHANGED <<archive, options, stream_open, raw_streams, callbacks, reuse, continue_after_error, run, file,
                 local_path_name, net_log, checkpoint_log, warc_records, tasks,
                 workers, results, consumed, outfile, done_marker, error>>

Next ==
  \/ StartRun
  \/ DownloadReuse
  \/ DownloadCleanup
  \/ DownloadRetrieve
  \/ ReadRecords
  \/ CloseStream
  \/ DeleteRawStreams
  \/ Dispatch
  \/ \E w \in Workers : WorkerTake(w)
  \/ \E w \in Workers : WorkerProcess(w)
  \/ MainWrite
  \/ WriteFails
  \/ CloseSink
  \/ WriteMarker
  \/ SysExit

Spec == Init /\ [][Next]_vars

\* the steps of the main thread of the running process
MainStep ==
  \/ DownloadReuse
  \/ DownloadCleanup
  \/ DownloadRetrieve
  \/ ReadRecords
  \/ CloseStream
  \/ DeleteRawStreams
  \/ Dispatch
  \/ MainWrite
  \/ CloseSink
  \/ WriteMarker
  \/ SysExit

\* the main thread and every pool worker keep being scheduled; nothing obliges
\* anyone to start another run, and no write is obliged to fail
Fairness ==
  /\ WF_vars(MainStep)
  /\ \A w \in Workers : WF_vars(WorkerTake(w) \/ WorkerProcess(w))

SpecFair == InitFlow /\ [][Next]_vars /\ Fairness

\* the same program under every setting of the filter criteria
SpecOptions == InitOptions /\ [][Next]_vars

\* ------------------------------------------------------- claim vocabulary
InLog == \E i \in DOMAIN checkpoint_log : checkpoint_log[i] = warc_download_url

IsArticleRecord(r) == r.rec_type = "response" /\ r.doc.kind = "article"

IsFailingRecord(r) == r.rec_type = "response" /\ r.doc.kind = "malformed"

SeqToBag(s) ==
  [x \in {s[i] : i \in DOMAIN s} |-> Cardinality({i \in DOMAIN s : s[i] = x})]

\* the lines the articles of a sequence of records serialise to, as a bag
ArticleLines(records) ==
  LET idx == {i \in DOMAIN records : IsArticleRecord(records[i])}
  IN [x \in {json_dumps(records[i].doc.article) : i \in idx} |->
        Cardinality({i \in idx : json_dumps(records[i].doc.article) = x})]

BagLeq(a, b) == \A x \in DOMAIN a : x \in DOMAIN b /\ a[x] <= b[x]

RunCompleted == pc \in {"marker", "exit", "exited"}

\* ------------------------------------------------------------------ claims

\* C1: with reuse enabled, a step taken while a file is present at the local
\* path issues no network download and leaves the file as it is, and the call
\* of __download made in that state returns the local path; so the second of
\* two runs reuses the file of the first.
Thm_C1_ReuseSkipsDownload ==
  [][(file.exists /\ reuse) =>
       /\ file' = file
       /\ net_log' = net_log
       /\ (pc = "download" =>
             pc' = "read" /\ local_path_name' = local_filepath(warc_download_url))]_vars

\* the second run has returned the file the first run downloaded, and the
\* first run's download is the only network download
Wit_C1_SecondRunReused ==
  run = 2 /\ pc = "read" /\ reuse /\ file.gen = 1 /\ net_log = <<1>>

\* C2: an exception raised while extracting a record never ends the run, and
\* a run that completes has written exactly the lines of the records that
\* yield an article: the failing records are left out and nothing else is.
Thm_C2_RecordFailureAbsorbed ==
  /\ error # "ExtractionFailure"
  /\ RunCompleted => SeqToBag(outfile.lines) = ArticleLines(warc_records)

\* a completed run over a failing record and a record with an article
Wit_C2_OneFailsOneWritten ==
  /\ pc = "exited"
  /\ \E i \in DOMAIN warc_records : IsFailingRecord(warc_records[i])
  /\ \E j \in DOMAIN warc_records : IsArticleRecord(warc_records[j])
  /\ Len(outfile.lines) = 1

\* C3: after a run that processed the archive, the archive's name is in the
\* log of fully extracted WARCs.
CE_C3_CheckpointedAfterRun == pc = "exited" => InLog

\* C4 as stated: the local file goes from present to absent only when the
\* archive's name is in the log of fully extracted WARCs.
CE_C4_RemovedOnlyIfLogged ==
  [][(file.exists /\ ~file'.exists) => InLog]_vars

\* C4 as amended: the local file goes from present to absent only when the
\* archive's name is in the log, or in the cleanup of __download before a
\* fresh download with reuse disabled; nothing removes it after extraction.
Thm_C4_RemovedOnlyByCleanup ==
  [][(file.exists /\ ~file'.exists) =>
       InLog \/ (pc = "download" /\ ~reuse /\ pc' = "retrieve")]_vars

\* the file of a completed first run has just been removed by the cleanup
Wit_C4_StaleFileRemoved ==
  pc = "retrieve" /\ ~reuse /\ done_marker /\ ~file.exists

\* C5: when valid_hosts is non-empty, every line of the output file is of an
\* article whose host is in valid_hosts.
CE_C5_HostsFiltered ==
  options.valid_hosts # {} =>
    \A i \in DOMAIN outfile.lines : outfile.lines[i].source_domain \in options.valid_hosts

\* C6: when strict_date is set, no line of the output file is of an article
\* without a publish date.
CE_C6_StrictDate ==
  options.strict_date =>
    \A i \in DOMAIN outfile.lines : outfile.lines[i].publish_date # [null |-> TRUE]

\* C7: every line of the output file that carries a publish date d has
\* start_date <= d <= end_date on whichever of the two bounds is set.
CE_C7_DateRange ==
  \A i \in DOMAIN outfile.lines :
    \A d \in Dates :
      outfile.lines[i].publish_date = date_str(d) =>
        /\ options.start_date # NoDate => options.start_date <= d
        /\ options.end_date # NoDate => d <= options.end_date

\* C8: no line of the output file is None; every line is the serialisation of
\* the article of a record of the archive, and no article is written more
\* often than the archive has records yielding it.
Thm_C8_NoNoneInSink ==
  /\ \A i \in DOMAIN outfile.lines : outfile.lines[i] # None
  /\ BagLeq(SeqToBag(outfile.lines), ArticleLines(archive))

\* a completed run that took a None result and an article from the pool and
\* wrote only the article
Wit_C8_NoneSkipped ==
  /\ pc = "marker"
  /\ consumed = 2
  /\ Len(outfile.lines) = 1
  /\ \E i \in DOMAIN warc_records : process_warc_record(warc_records[i]) = None

\* C9: a run that ends with an exception was started with
\* continue_after_error false.
CE_C9_ContinueAfterError == pc = "aborted" => ~continue_after_error

\* C10: when reuse is disabled or no file exists, __download first leaves no
\* file at the local path, issuing no download yet; the download that follows
\* starts from the empty path and is the call's one network download; and the
\* path is returned only for a complete file written by this call.
Thm_C10_FreshDownload ==
  [][/\ (pc = "download" /\ ~(file.exists /\ reuse)) =>
          pc' = "retrieve" /\ ~file'.exists /\ net_log' = net_log
     /\ pc = "retrieve" =>
          /\ ~file.exists
          /\ net_log' = Append(net_log, run)
          /\ Cardinality({i \in DOMAIN net_log' : net_log'[i] = run}) = 1
          /\ pc' \in {"read", "aborted"}
          /\ pc' = "read" =>
               /\ file'.exists /\ file'.complete /\ file'.gen = run
               /\ local_path_name' = local_filepath(warc_download_url)]_vars

\* with reuse disabled, the second run has replaced the first run's file by
\* its own download and returned it
Wit_C10_StaleReplaced ==
  run = 2 /\ pc = "read" /\ ~reuse /\ file.gen = 2 /\ net_log = <<1, 2>>

\* C11: with reuse enabled, __download called while a partial file (left by a
\* download that failed part-way) is at the local path returns that path and
\* leaves the partial file as it is, without a network request.
Thm_C11_PartialFileReused ==
  [][(pc = "download" /\ reuse /\ file.exists /\ ~file.complete) =>
       /\ pc' = "read"
       /\ local_path_name' = local_filepath(warc_download_url)
       /\ file' = file
       /\ net_log' = net_log]_vars

\* the second run has been handed the partial file the first run's failed
\* download left behind
Wit_C11_PartialReturned ==
  /\ run = 2 /\ pc = "read" /\ reuse
  /\ file.exists /\ ~file.complete /\ file.gen = 1
  /\ net_log = <<1>>
  /\ local_path_name = local_filepath(warc_download_url)

\* C12: a run that has extracted and written the archive with
\* delete_warc_after_extraction set has removed the local file when it ends.
CE_C12_DeletedAfterExtraction ==
  (pc = "exited" /\ options.delete_warc_after_extraction) => ~file.exists

\* the workers that are extracting a record
Extracting == {w \in Workers : workers[w].todo # <<>>}

\* C13: never are more records being extracted at once than the configured
\* number of extraction processes.
CE_C13_PoolBounded == Cardinality(Extracting) <= my_number_of_extraction_processes

\* C14: the output file has one writer. A step of a worker leaves the file as
\* it is; the lines of the file change only when the main thread opens the
\* file, or when it takes the next item handed back by the pool and adds it as
\* one whole line after the lines already written.
Thm_C14_SingleWriter ==
  [][/\ (workers' # workers /\ pc' = "extract") => outfile' = outfile
     /\ outfile'.lines # outfile.lines =>
          \/ pc = "dispatch" /\ outfile'.lines = <<>>
          \/ /\ pc = "extract"
             /\ results # <<>>
             /\ results' = Tail(results)
             /\ workers' = workers
             /\ outfile'.lines = Append(outfile.lines, Head(results))]_vars

\* a worker is still extracting while the main thread has written the first
\* line handed back to it
Wit_C14_WorkersBusyWhileWriting ==
  /\ pc = "extract"
  /\ Len(outfile.lines) = 1
  /\ consumed = 1
  /\ Cardinality(Extracting) >= 1

FatalInExtraction == pc = "aborted" /\ error \in {"WriteError", "ExtractionFailure"}

\* C15: a run that a fatal error ended during extraction or writing has ended
\* with a non-zero exit status, with the output file closed and a completion
\* marker written.
CE_C15_MarkerOnFatalError ==
  FatalInExtraction => exit_status = 1 /\ ~outfile.open /\ done_marker

\* the records of a sequence of chunks, in order
RECURSIVE Flatten(_)
Flatten(chunks) == IF chunks = <<>> THEN <<>> ELSE Head(chunks) \o Flatten(Tail(chunks))

RECURSIVE HeldTodo(_)
HeldTodo(n) == IF n = 0 THEN <<>> ELSE HeldTodo(n - 1) \o workers[n].todo

RECURSIVE HeldOut(_)
HeldOut(n) == IF n = 0 THEN <<>> ELSE HeldOut(n - 1) \o workers[n].out

\* records not yet extracted, and results extracted but not yet seen by the loop
PendingRecords == Flatten(tasks) \o HeldTodo(NumWorkers)

ItemsInFlight == HeldOut(NumWorkers) \o results

JsonLines == {json_dumps(a) : a \in Articles}

CountItem(x, items) == Cardinality({i \in DOMAIN items : items[i] = x})

CountArticle(x, records) ==
  Cardinality({i \in DOMAIN records :
                 IsArticleRecord(records[i]) /\ json_dumps(records[i].doc.article) = x})

\* C17: under every schedule of the pool, each record handed to the callback
\* is in exactly one place: waiting to be extracted, extracted and on its way
\* to the main thread, or taken by the main loop. So every article is written
\* exactly as often as the records yield it, no result is lost or delivered
\* twice, and a completed run has written the same lines whatever the order.
Thm_C17_ExactlyOnceDelivery ==
  (pc = "extract" \/ RunCompleted) =>
    LET pending == PendingRecords
        inflight == ItemsInFlight
    IN /\ Len(pending) + Len(inflight) + consumed = Len(warc_records)
       /\ \A x \in JsonLines :
            CountArticle(x, pending) + CountItem(x, inflight)
              + CountItem(x, outfile.lines) = CountArticle(x, warc_records)

\* a completed run that wrote the articles of two records in the opposite of
\* their order in the archive
Wit_C17_OutOfOrder ==
  /\ pc = "exited"
  /\ Len(warc_records) = 2
  /\ IsArticleRecord(warc_records[1])
  /\ IsArticleRecord(warc_records[2])
  /\ warc_records[1] # warc_records[2]
  /\ outfile.lines =
       <<json_dumps(warc_records[2].doc.article), json_dumps(warc_records[1].doc.article)>>

\* C18 as stated: whenever the '.done' marker exists, the output file is
\* closed and holds the results of all records of the archive.
CE_C18_MarkerMeansComplete ==
  done_marker => ~outfile.open /\ SeqToBag(outfile.lines) = ArticleLines(archive)

\* C18 as amended: a run writes the marker only after it has closed the
\* output file with the results of all records read from the local file in
\* it (all records of the archive when that file is complete), and this stays
\* so until the next run starts; on a path without a marker of an earlier run
\* the marker exists only then.
Thm_C18_MarkerWrittenAfterClose ==
  /\ (run <= 1 /\ done_marker) => pc \in {"exit", "exited"}
  /\ pc \in {"exit", "exited"} => done_marker
  /\ pc \in {"marker", "exit", "exited"} =>
       /\ outfile.exists /\ ~outfile.open
       /\ SeqToBag(outfile.lines) = ArticleLines(SubSeq(archive, 1, file.nrec))
       /\ file.complete => SeqToBag(outfile.lines) = ArticleLines(archive)

\* the second run has rewritten the output of the first, closed it and written
\* the marker again
Wit_C18_MarkerAfterRerun ==
  /\ run = 2 /\ pc = "exit"
  /\ done_marker
  /\ net_log = <<1>>
  /\ file.complete
  /\ ~outfile.open
  /\ Len(outfile.lines) = 2

\* the stages of a run, in the order of the code
StageRank(p) ==
  CASE p = "idle" -> 0
    [] p = "download" -> 1
    [] p = "retrieve" -> 2
    [] p = "read" -> 3
    [] p = "close" -> 4
    [] p = "strip" -> 5
    [] p = "dispatch" -> 6
    [] p = "extract" -> 7
    [] p = "marker" -> 8
    [] p = "exit" -> 9
    [] OTHER -> 10

TypeOK ==
  /\ archive \in Archives
  /\ options \in Options
  /\ run \in 0..MaxRuns
  /\ pc \in {"idle", "download", "retrieve", "read", "close", "strip", "dispatch", "extract", "marker",
             "exit", sys_exit, "aborted"}
  /\ consumed \in 0..MaxRecords
  /\ exit_status \in {-1, 0, 1}
====
